---- MODULE Spec2Model ----
(***************************************************************************)
(* A model of the four scripts of the repository:                          *)
(*   Anonymous_CrookedConfluence.py  keyword search (searchKeyWords)       *)
(*   confluence_get_group_members.py cursor pagination (get_all_users)     *)
(*   Confluence_Anon_List_All.py     recursive listing (list_all_content)  *)
(*   simple_http_probe.py            per-port HTTPS/HTTP probe             *)
(* One run executes one script; `script` says which.  Strings are          *)
(* sequences of one-character strings, so that concatenation, strip() and  *)
(* split(",") are computed as Python computes them.                        *)
(***************************************************************************)
EXTENDS Integers, Sequences, FiniteSets, TLC

VARIABLES
    script,       \* which script this run executes
    pc,           \* position of the script
    exitStatus,   \* process exit status, NoStatus while running
    argv,         \* the parsed command line (sys.argv[1:])
    requests,     \* HTTP requests issued so far, in order
    fileOpen,     \* TRUE once the output file has been opened for writing
    outFile,      \* what has been written to the output file
    lastError,    \* the uncaught exception that ended the run, or "none"
    \* ---- Anonymous_CrookedConfluence.py
    cURL, dict_path, limit,
    lines, lineIdx, search_term, totalSize, start_point, tempSetCount, count,
    contentSet,
    added,        \* the records whose entry searchKeyWords has put into contentSet
    srv,          \* the server's answer set for the current term
    \* ---- confluence_get_group_members.py
    member_api_url, user_list,
    served,       \* the pages the members endpoint has answered with, in order
    \* ---- Confluence_Anon_List_All.py
    spaces, spaceIdx, pages, pageIdx, child_pages,
    tree,         \* the server's page tree below the top-level page, and its faults
    \* ---- simple_http_probe.py
    ports, portIdx, scheme,
    answers       \* per probe issued, the target's answer to its last attempt

vars == << script, pc, exitStatus, argv, requests, fileOpen, outFile, lastError,
           cURL, dict_path, limit, lines, lineIdx, search_term, totalSize,
           start_point, tempSetCount, count, contentSet, added, srv,
           member_api_url, user_list, served,
           spaces, spaceIdx, pages, pageIdx, child_pages, tree,
           ports, portIdx, scheme, answers >>

ccVars == << cURL, dict_path, limit, lines, lineIdx, search_term, totalSize,
             start_point, tempSetCount, count, contentSet, added, srv >>

gmVars == << member_api_url, user_list, served >>

\* What the actions of one script leave alone: the other scripts' variables
laVars == << spaces, spaceIdx, pages, pageIdx, child_pages, tree >>

prVars == << ports, portIdx, scheme, answers >>

nonCC == << gmVars, laVars, prVars >>
nonGM == << ccVars, laVars, prVars >>
nonLA == << ccVars, gmVars, prVars >>
nonPR == << ccVars, gmVars, laVars >>

NoStatus == -1

\* ------------------------------------------------------------------ strings

Min(a, b) == IF a < b THEN a ELSE b

Whitespace == {" ", "\n", "\t"}

RECURSIVE LStrip(_)
LStrip(s) == IF s # << >> /\ Head(s) \in Whitespace THEN LStrip(Tail(s)) ELSE s

RECURSIVE RStrip(_)
RStrip(s) == IF s # << >> /\ s[Len(s)] \in Whitespace
             THEN RStrip(SubSeq(s, 1, Len(s) - 1)) ELSE s

\* str.strip()
Strip(s) == RStrip(LStrip(s))

\* str.split(","): the fields between the commas, in order
RECURSIVE SplitFrom(_, _, _)
SplitFrom(s, i, cur) ==
    IF i > Len(s) THEN << cur >>
    ELSE IF s[i] = "," THEN << cur >> \o SplitFrom(s, i + 1, << >>)
    ELSE SplitFrom(s, i + 1, Append(cur, s[i]))

Split(s) == SplitFrom(s, 1, << >>)

\* int(s) for a decimal literal; IsInt(s) is FALSE where int() raises ValueError
Digits == << "0", "1", "2", "3", "4", "5", "6", "7", "8", "9" >>

IsDigit(c) == \E d \in 1..10 : Digits[d] = c

DigitVal(c) == (CHOOSE d \in 1..10 : Digits[d] = c) - 1

IsInt(s) == LET t == Strip(s) IN t # << >> /\ \A i \in 1..Len(t) : IsDigit(t[i])

RECURSIVE ParseDigits(_, _)
ParseDigits(t, acc) ==
    IF t = << >> THEN acc ELSE ParseDigits(Tail(t), 10 * acc + DigitVal(Head(t)))

ParseInt(s) == ParseDigits(Strip(s), 0)

\* ---------------------------------------------------- command line, keyword search

\* sys.maxsize, the default limit; TLC's integers are 32 bits wide, so the model
\* uses the greatest of them: like sys.maxsize it exceeds every total a server reports
SysMaxSize == 2147483647

\* start_point += 250, and limit=250 in the page request
PageStep == 250

MaxTerms == 2

MaxPageSize == 3

UrlPlain == << "u" >>
UrlSlash == << "u", "/" >>
DictFile == << "d" >>
BadDictFile == << "n" >>

OptH == [opt |-> "-h", arg |-> << >>]
OptC == [opt |-> "-c", arg |-> UrlPlain]
OptCSlash == [opt |-> "-c", arg |-> UrlSlash]
OptD == [opt |-> "-d", arg |-> DictFile]
OptDBad == [opt |-> "-d", arg |-> BadDictFile]
OptA == [opt |-> "-a", arg |-> << "a" >>]
OptL1 == [opt |-> "-l", arg |-> << "1" >>]
OptL2 == [opt |-> "-l", arg |-> << "2" >>]
OptLBad == [opt |-> "-l", arg |-> << "x" >>]
OptX == [opt |-> "-x", arg |-> << >>]

\* Command lines of Anonymous_CrookedConfluence.py
CCArgvs ==
    { << >>, << OptH >>, << OptX >>, << OptX, OptH >>,
      << OptC >>, << OptD >>, << OptA >>, << OptL2 >>,
      << OptC, OptH >>, << OptD, OptH >>, << OptLBad >>, << OptLBad, OptH >>,
      << OptH, OptLBad >>, << OptC, OptLBad >>, << OptD, OptLBad >>,
      << OptC, OptDBad >>, << OptDBad, OptCSlash, OptL2 >>, << OptA, OptD, OptH >>,
      << OptC, OptD >>, << OptC, OptD, OptL1 >>, << OptD, OptCSlash, OptL2 >> }

CCKnownOpts == { "-h", "-c", "-d", "-a", "-l" }

\* The option loop of main(): the first -h exits 0, a -l that is no integer
\* raises ValueError, everything else is stored.
RECURSIVE CCOptLoop(_, _, _)
CCOptLoop(opts, i, st) ==
    IF i > Len(opts) THEN st
    ELSE LET o == opts[i] IN
         IF o.opt = "-h" THEN [st EXCEPT !.outcome = "help"]
         ELSE IF o.opt = "-c" THEN CCOptLoop(opts, i + 1, [st EXCEPT !.cURL = o.arg])
         ELSE IF o.opt = "-d" THEN CCOptLoop(opts, i + 1, [st EXCEPT !.dict_path = o.arg])
         ELSE IF o.opt = "-l"
              THEN IF IsInt(o.arg)
                   THEN CCOptLoop(opts, i + 1, [st EXCEPT !.limit = ParseInt(o.arg)])
                   ELSE [st EXCEPT !.outcome = "ValueError"]
         ELSE CCOptLoop(opts, i + 1, st)

\* (mutant) the check for the mandatory -c is lost
CCParseNoUrlCheck(opts) ==
    IF \E i \in 1..Len(opts) : opts[i].opt \notin CCKnownOpts
    THEN [outcome |-> "usage", cURL |-> << >>, dict_path |-> << >>, limit |-> SysMaxSize]
    ELSE LET st == CCOptLoop(opts, 1, [outcome |-> "ok", cURL |-> << >>,
                                      dict_path |-> << >>, limit |-> SysMaxSize])
         IN IF st.outcome # "ok" THEN st
            ELSE IF st.dict_path = << >> THEN [st EXCEPT !.outcome = "usage"]
            ELSE st

\* getopt.getopt and the rest of main() up to the call of searchKeyWords
CCParse(opts) ==
    IF \E i \in 1..Len(opts) : opts[i].opt \notin CCKnownOpts
    THEN [outcome |-> "usage", cURL |-> << >>, dict_path |-> << >>, limit |-> SysMaxSize]
    ELSE LET st == CCOptLoop(opts, 1, [outcome |-> "ok", cURL |-> << >>,
                                      dict_path |-> << >>, limit |-> SysMaxSize])
         IN IF st.outcome # "ok" THEN st
            ELSE IF st.dict_path = << >> THEN [st EXCEPT !.outcome = "usage"]
            ELSE IF st.cURL = << >> THEN [st EXCEPT !.outcome = "usage"]
            ELSE IF st.cURL[Len(st.cURL)] = "/"
                 THEN [st EXCEPT !.cURL = SubSeq(st.cURL, 1, Len(st.cURL) - 1)]
            ELSE st

\* sys.exit(n) / an uncaught exception
Exit(n) == /\ pc' = "exited" /\ exitStatus' = n /\ lastError' = "none"
Crash(e) == /\ pc' = "crashed" /\ exitStatus' = 1 /\ lastError' = e

CC_Main ==
    /\ script = "crooked" /\ pc = "main"
    /\ LET st == CCParse(argv) IN
       /\ cURL' = st.cURL /\ dict_path' = st.dict_path /\ limit' = st.limit
       /\ CASE st.outcome = "help" -> Exit(0)
            [] st.outcome = "usage" -> Exit(2)
            [] st.outcome = "ValueError" -> Crash("ValueError")
            [] OTHER -> /\ pc' = "open" /\ UNCHANGED << exitStatus, lastError >>
    /\ UNCHANGED << script, argv, requests, fileOpen, outFile, lines, lineIdx, search_term,
                    totalSize, start_point, tempSetCount, count, contentSet, added, srv, nonCC >>

\* ------------------------------------------------------------ the search server

\* The dictionary file: one search term per line
DictLines == { << "p", "w", "\n" >>, << " ", "k", "\n" >> }

Dicts == UNION { [1..n -> DictLines] : n \in 0..MaxTerms }

\* What /rest/api/search holds for one term: N records, of which it serves at
\* most P per request (never more than the limit=250 asked for), from the
\* 0-based offset `start`.  mode "dup" repeats the items of the first PageStep
\* records on the following pages, mode "bad" has a record without
\* content.title at offset 2 (the modes are listed where they change an answer).
Totals == { 0, 1, 2, 4, PageStep + 2 }

SrvChoices ==
    { s \in [ N : Totals, P : 1..MaxPageSize, mode : { "plain", "dup", "bad" } ] :
        /\ s.mode = "dup" => s.N > PageStep
        /\ s.mode = "bad" => s.N > 2 }

NoSrv == [ N |-> 0, P |-> 1, mode |-> "plain" ]

\* str(n) for n >= 0
RECURSIVE Str(_)
Str(n) == IF n < 10 THEN << Digits[n + 1] >> ELSE Str(n \div 10) \o << Digits[(n % 10) + 1] >>

Title(i) == IF i = 1 THEN << "a", ",", "b" >> ELSE << "t" >>

\* results[i] of the term's answer set: content._links.webui, content.title
SrvRecord(s, i) ==
    LET item == IF s.mode = "dup" THEN i % PageStep ELSE i IN
    [ webui |-> << "/" >> \o Str(item),
      title |-> Title(item),
      hasTitle |-> ~(s.mode = "bad" /\ i = 2) ]

\* jsonResp["results"] for ?start=<start>&limit=250
SrvPage(s, start) ==
    LET last == Min(start + Min(s.P, PageStep), s.N) - 1 IN
    [ k \in 1..(IF last < start THEN 0 ELSE last - start + 1) |-> SrvRecord(s, start + k - 1) ]

\* What ends a request with an exception: requests raises ConnectionError, the
\* body of an error answer is no JSON, or its JSON lacks the key that is read.
ReqFailures == { "ConnectionError", "JSONDecodeError", "KeyError" }

\* ------------------------------------------------------------ searchKeyWords

\* id_and_name = pageId_url + "," + page_name + "," + search_term
IdAndName(r, term) == r.webui \o << "," >> \o r.title \o << "," >> \o term

\* The for loop over jsonResp["results"]: a record that raises is skipped
AddResults(set, results, term) ==
    set \cup { IdAndName(results[k], term) : k \in { j \in 1..Len(results) : results[j].hasTitle } }

\* The (pageId_url, page_name, search_term) of the results whose entry is added
AddedRecords(set, results, term) ==
    set \cup { [ webui |-> results[k].webui, title |-> results[k].title, term |-> term ] :
                 k \in { j \in 1..Len(results) : results[j].hasTitle } }

CC_Open ==
    /\ script = "crooked" /\ pc = "open"
    /\ IF dict_path = BadDictFile
       THEN /\ Exit(2) /\ UNCHANGED lines
       ELSE /\ \E d \in Dicts : lines' = d
            /\ pc' = "term" /\ UNCHANGED << exitStatus, lastError >>
    /\ UNCHANGED << script, argv, requests, fileOpen, outFile, cURL, dict_path, limit,
                    lineIdx, search_term, totalSize, start_point, tempSetCount, count,
                    contentSet, added, srv, nonCC >>

\* for line in f: ... totalSize = getNumberOfPages(...)
CC_TotalSize ==
    /\ script = "crooked" /\ pc = "term" /\ lineIdx <= Len(lines)
    /\ tempSetCount' = Cardinality(contentSet)
    /\ count' = 0
    /\ search_term' = Strip(lines[lineIdx])
    /\ requests' = Append(requests, [ kind |-> "total", term |-> search_term', start |-> 0 ])
    /\ \/ \E e \in ReqFailures :
            /\ Crash(e)
            /\ UNCHANGED << totalSize, start_point, srv >>
       \/ \E s \in SrvChoices :
            /\ srv' = s
            /\ IF s.N # 0
               THEN /\ start_point' = 1
                    /\ totalSize' = IF s.N > limit THEN limit ELSE s.N
                    /\ pc' = "pages"
               ELSE /\ totalSize' = 0
                    /\ pc' = "nodocs"
                    /\ UNCHANGED start_point
            /\ UNCHANGED << exitStatus, lastError >>
    /\ UNCHANGED << script, argv, fileOpen, outFile, cURL, dict_path, limit, lines,
                    lineIdx, contentSet, added, nonCC >>

\* One iteration of `while start_point < totalSize`
CC_Page ==
    /\ script = "crooked" /\ pc = "pages" /\ start_point < totalSize
    /\ requests' = Append(requests, [ kind |-> "page", term |-> search_term, start |-> start_point ])
    /\ \/ \E e \in ReqFailures :
            /\ Crash(e)
            /\ UNCHANGED << contentSet, added, start_point >>
       \/ /\ contentSet' = AddResults(contentSet, SrvPage(srv, start_point), search_term)
          /\ added' = AddedRecords(added, SrvPage(srv, start_point), search_term)
          /\ start_point' = start_point + PageStep
          /\ UNCHANGED << pc, exitStatus, lastError >>
    /\ UNCHANGED << script, argv, fileOpen, outFile, cURL, dict_path, limit, lines,
                    lineIdx, search_term, totalSize, tempSetCount, count, srv, nonCC >>

\* The while loop has ended (or no document was found): the count is printed
\* and the for loop moves to the next line
CC_EndTerm ==
    /\ script = "crooked"
    /\ \/ pc = "pages" /\ ~(start_point < totalSize)
       \/ pc = "nodocs"
    /\ IF pc = "pages" /\ Cardinality(contentSet) > tempSetCount
       THEN /\ count' = Cardinality(contentSet) - tempSetCount
            /\ tempSetCount' = Cardinality(contentSet)
       ELSE UNCHANGED << count, tempSetCount >>
    /\ lineIdx' = lineIdx + 1
    /\ pc' = "term"
    /\ srv' = NoSrv
    /\ UNCHANGED << script, exitStatus, argv, requests, fileOpen, outFile, lastError,
                    cURL, dict_path, limit, lines, search_term, totalSize, start_point,
                    contentSet, added, nonCC >>

\* One line of saveContent's file per element of contentSet
SavedLine(ogURL, page) ==
    [ url |-> ogURL \o Split(page)[1], name |-> Split(page)[2], term |-> Split(page)[3] ]

\* The file as a bag of lines: the set is written in no particular order
SavedFile(ogURL, set) ==
    LET ls == { SavedLine(ogURL, e) : e \in set } IN
    [ l \in ls |-> Cardinality({ e \in set : SavedLine(ogURL, e) = l }) ]

\* searchKeyWords returns and saveContent runs; ./loot may not exist
CC_Save ==
    /\ script = "crooked" /\ pc = "term" /\ lineIdx > Len(lines)
    /\ \/ /\ Crash("FileNotFoundError")
          /\ UNCHANGED << fileOpen, outFile >>
       \/ /\ fileOpen' = TRUE
          /\ outFile' = SavedFile(cURL, contentSet)
          /\ Exit(0)
    /\ UNCHANGED << script, argv, requests, ccVars, nonCC >>

\* The variables of the other scripts, which a run of one script never touches
CCIdle ==
    /\ cURL = << >> /\ dict_path = << >> /\ limit = SysMaxSize
    /\ lines = << >> /\ lineIdx = 1 /\ search_term = << " " >>
    /\ totalSize = 0 /\ start_point = 0 /\ tempSetCount = 0 /\ count = 0
    /\ contentSet = {} /\ added = {} /\ srv = NoSrv

GMIdle == member_api_url = << >> /\ user_list = << >> /\ served = << >>

NoTree == [ parent |-> << >>, fail |-> {}, bad |-> {} ]

LAIdle ==
    /\ spaces = << >> /\ spaceIdx = 1 /\ pages = << >> /\ pageIdx = 1
    /\ child_pages = << >> /\ tree = NoTree

PRIdle == ports = << >> /\ portIdx = 1 /\ scheme = "https" /\ answers = << >>

Start ==
    /\ pc = "main" /\ exitStatus = NoStatus
    /\ requests = << >> /\ fileOpen = FALSE /\ outFile = << >> /\ lastError = "none"

CCInit ==
    /\ script = "crooked" /\ argv \in CCArgvs
    /\ Start /\ CCIdle /\ GMIdle /\ LAIdle /\ PRIdle

CCNext == CC_Main \/ CC_Open \/ CC_TotalSize \/ CC_Page \/ CC_EndTerm \/ CC_Save

\* ------------------------------------------------- confluence_get_group_members.py

MaxArgc == 4

MaxPages == 3

\* sys.argv[1:] of confluence_get_group_members.py: <url> <api_endpoint> <output_file>
GMArgvs == UNION { [1..n -> { << "x" >> }] : n \in 0..MaxArgc }

\* data['results'] of one page of the members endpoint; hasName is FALSE for a
\* result without 'username'
Member(u) == [ username |-> u, hasName |-> TRUE ]
NoName == [ username |-> "", hasName |-> FALSE ]

MemberPages ==
    { << >>, << Member("al") >>, << Member("al"), Member("bo") >>,
      << Member("bo"), Member("al") >>, << Member("al"), NoName >>, << NoName, Member("bo") >> }

\* data['_links']['next'] of the k-th page served
NextLink(k) == << "?", "s", "=" >> \o Str(k)

\* (mutant) user_list = [user] instead of user_list.append(user)
RECURSIVE AppendUsersAssign(_, _, _)
AppendUsersAssign(list, results, k) ==
    IF k > Len(results) THEN [ list |-> list, error |-> "none" ]
    ELSE IF ~results[k].hasName THEN [ list |-> list, error |-> "KeyError" ]
    ELSE AppendUsersAssign(<< results[k].username >>, results, k + 1)

\* The for loop over data['results']: user_list.append(result['username']);
\* a result without 'username' raises KeyError out of the loop
RECURSIVE AppendUsers(_, _, _)
AppendUsers(list, results, k) ==
    IF k > Len(results) THEN [ list |-> list, error |-> "none" ]
    ELSE IF ~results[k].hasName THEN [ list |-> list, error |-> "KeyError" ]
    ELSE AppendUsers(Append(list, results[k].username), results, k + 1)

GM_Main ==
    /\ script = "members" /\ pc = "main"
    /\ IF Len(argv) + 1 # 4
       THEN /\ Exit(1) /\ UNCHANGED member_api_url
       ELSE /\ member_api_url' = argv[1] \o argv[2]
            /\ pc' = "fetch" /\ UNCHANGED << exitStatus, lastError >>
    /\ UNCHANGED << script, argv, requests, fileOpen, outFile, user_list, served, nonGM >>

\* One iteration of `while True` in get_all_users
GM_Fetch ==
    /\ script = "members" /\ pc = "fetch"
    /\ requests' = Append(requests, member_api_url)
    /\ \/ \E e \in { "ConnectionError", "JSONDecodeError" } :
            /\ Crash(e)
            /\ UNCHANGED << member_api_url, user_list, served >>
       \/ \* req.status_code != 200: break
          /\ pc' = "write"
          /\ served' = Append(served, [ status |-> 500, results |-> << >>, hasNext |-> FALSE ])
          /\ UNCHANGED << member_api_url, user_list, exitStatus, lastError >>
       \/ \E res \in MemberPages, more \in BOOLEAN :
            /\ more => Len(served) + 1 < MaxPages
            /\ served' = Append(served, [ status |-> 200, results |-> res, hasNext |-> more ])
            /\ LET r == AppendUsers(user_list, res, 1) IN
               /\ user_list' = r.list
               /\ IF r.error # "none"
                  THEN /\ Crash(r.error) /\ UNCHANGED member_api_url
                  ELSE /\ UNCHANGED << exitStatus, lastError >>
                       /\ IF more
                          THEN /\ member_api_url' = argv[1] \o NextLink(Len(served) + 1)
                               /\ UNCHANGED pc
                          ELSE /\ pc' = "write" /\ UNCHANGED member_api_url
    /\ UNCHANGED << script, argv, fileOpen, outFile, nonGM >>

\* The list is returned and written, one user per line
GM_Write ==
    /\ script = "members" /\ pc = "write"
    /\ fileOpen' = TRUE
    /\ outFile' = [ k \in 1..Len(user_list) |-> << user_list[k], "\n" >> ]
    /\ Exit(0)
    /\ UNCHANGED << script, argv, requests, gmVars, nonGM >>

GMInit ==
    /\ script = "members" /\ argv \in GMArgvs
    /\ Start /\ CCIdle /\ GMIdle /\ LAIdle /\ PRIdle

GMNext == GM_Main \/ GM_Fetch \/ GM_Write

\* ------------------------------------------------------ Confluence_Anon_List_All.py

MaxNodes == 4

OptO == [opt |-> "-o", arg |-> << "o" >>]

LAArgvs ==
    { << >>, << OptH >>, << OptX >>, << OptA >>, << OptO >>, << OptX, OptC >>,
      << OptC, OptH >>, << OptH, OptC >>, << OptC >>, << OptCSlash, OptO >> }

LAKnownOpts == { "-h", "-c", "-a", "-o" }

RECURSIVE LAOptLoop(_, _, _)
LAOptLoop(opts, i, st) ==
    IF i > Len(opts) THEN st
    ELSE LET o == opts[i] IN
         IF o.opt = "-h" THEN [st EXCEPT !.outcome = "help"]
         ELSE IF o.opt = "-c" THEN LAOptLoop(opts, i + 1, [st EXCEPT !.cURL = o.arg])
         ELSE LAOptLoop(opts, i + 1, st)

LAParse(opts) ==
    IF \E i \in 1..Len(opts) : opts[i].opt \notin LAKnownOpts
    THEN [outcome |-> "usage", cURL |-> << >>]
    ELSE LET st == LAOptLoop(opts, 1, [outcome |-> "ok", cURL |-> << >>])
         IN IF st.outcome = "ok" /\ st.cURL = << >> THEN [st EXCEPT !.outcome = "usage"] ELSE st

\* The page trees below the top-level page 0: parent[n] is the parent of page n.
\* Requests about the pages in `fail` are answered with an error (safe_request
\* returns None); the pages in `bad` are listed without a title.
Trees ==
    { [ parent |-> p, fail |-> f, bad |-> b ] :
        p \in UNION { { q \in [1..n -> 0..MaxNodes] : \A k \in 1..n : q[k] < k } : n \in 0..MaxNodes },
        f \in { {}, { 1 } }, b \in { {}, { 2 } } }

PageTitle(n) == << "T" >> \o Str(n)

\* (page["id"], page["title"], f"{cURL}/pages/viewpage.action?pageId={page['id']}")
PageTuple(n) == [ id |-> n, title |-> PageTitle(n), url |-> << "/", "p", "=" >> \o Str(n) ]

\* data["results"] of /rest/api/content/<parent>/child/page, by ascending id
RECURSIVE ChildrenFrom(_, _, _)
ChildrenFrom(t, parent, n) ==
    IF n > Len(t.parent) THEN << >>
    ELSE (IF t.parent[n] = parent THEN << n >> ELSE << >>) \o ChildrenFrom(t, parent, n + 1)

Children(t, parent) == ChildrenFrom(t, parent, 1)

ChildRequest(n) == [ kind |-> "child", id |-> n ]
AttachmentRequest(n) == [ kind |-> "attachment", id |-> n ]

\* get_child_pages: the list it returns, the requests it issues, and the
\* exception it raises, if any.  The for loop runs over child_pages while the
\* loop body extends child_pages, so it also visits the elements it appended.
RECURSIVE GetChildPages(_, _)
RECURSIVE ExtendLoop(_, _, _, _)
GetChildPages(t, parent_id) ==
    LET req == << ChildRequest(parent_id) >>
        kids == Children(t, parent_id)
    IN IF parent_id \in t.fail THEN [ list |-> << >>, reqs |-> req, error |-> "none" ]
       ELSE IF \E k \in 1..Len(kids) : kids[k] \in t.bad
            THEN [ list |-> << >>, reqs |-> req, error |-> "KeyError" ]
       ELSE ExtendLoop(t, [ k \in 1..Len(kids) |-> PageTuple(kids[k]) ], 1, req)

ExtendLoop(t, list, i, reqs) ==
    IF i > Len(list) THEN [ list |-> list, reqs |-> reqs, error |-> "none" ]
    ELSE LET sub == GetChildPages(t, list[i].id) IN
         IF sub.error # "none"
         THEN [ list |-> list, reqs |-> reqs \o sub.reqs, error |-> sub.error ]
         ELSE ExtendLoop(t, list \o sub.list, i + 1, reqs \o sub.reqs)

\* get_attachments: every odd page carries one attachment
GetAttachments(t, n) ==
    IF n \in t.fail \/ n % 2 = 0 THEN << >>
    ELSE << [ title |-> << "A" >> \o Str(n), url |-> << "/", "d", "=" >> \o Str(n) ] >>

FileLine(kind, text, url) == [ kind |-> kind, text |-> text, url |-> url ]

AttachmentLines(t, n) ==
    LET atts == GetAttachments(t, n) IN
    [ k \in 1..Len(atts) |-> FileLine("Attachment", atts[k].title, atts[k].url) ]

\* The loop of list_all_content over child_pages: the lines it writes and the
\* requests it issues
RECURSIVE SubPageLoop(_, _, _, _)
SubPageLoop(t, list, i, acc) ==
    IF i > Len(list) THEN acc
    ELSE SubPageLoop(t, list, i + 1,
            [ lines |-> (acc.lines \o << FileLine("Sub-Page", list[i].title, list[i].url) >>)
                         \o AttachmentLines(t, list[i].id),
              reqs |-> Append(acc.reqs, AttachmentRequest(list[i].id)) ])

LA_Main ==
    /\ script = "listall" /\ pc = "main"
    /\ LET st == LAParse(argv) IN
       CASE st.outcome = "help" -> Exit(0)
         [] st.outcome = "usage" -> Exit(2)
         [] OTHER -> /\ pc' = "spaces" /\ UNCHANGED << exitStatus, lastError >>
    /\ UNCHANGED << script, argv, requests, fileOpen, outFile, laVars, nonLA >>

\* The file is opened and get_spaces runs; a space without "key" raises KeyError.
\* The server's page tree is fixed from the first request on.
LA_Spaces ==
    /\ script = "listall" /\ pc = "spaces"
    /\ fileOpen' = TRUE
    /\ outFile' = << FileLine("Header", << >>, << >>) >>
    /\ requests' = Append(requests, [ kind |-> "space", id |-> 0 ])
    /\ \E t \in Trees : tree' = t
    /\ \/ /\ Crash("KeyError") /\ UNCHANGED spaces
       \/ \E sp \in { << >>, << "S" >>, << "S", "R" >> } :
            /\ spaces' = sp
            /\ pc' = "space" /\ UNCHANGED << exitStatus, lastError >>
    /\ UNCHANGED << script, argv, spaceIdx, pages, pageIdx, child_pages, nonLA >>

\* for space, space_url in spaces: the space line, then get_pages_in_space
LA_Space ==
    /\ script = "listall" /\ pc = "space" /\ spaceIdx <= Len(spaces)
    /\ outFile' = Append(outFile, FileLine("Space", << spaces[spaceIdx] >>, << >>))
    /\ requests' = Append(requests, [ kind |-> "content", id |-> spaceIdx ])
    /\ \/ /\ Crash("KeyError") /\ UNCHANGED << pages, pageIdx >>
       \/ \E pg \in { << >>, << PageTuple(0) >> } :
            /\ pages' = pg /\ pageIdx' = 1
            /\ pc' = "page" /\ UNCHANGED << exitStatus, lastError >>
    /\ UNCHANGED << script, argv, fileOpen, spaces, spaceIdx, child_pages, tree, nonLA >>

\* for page in pages: the page line, its child pages and their attachments,
\* then the attachments of the page itself
LA_Page ==
    /\ script = "listall" /\ pc = "page" /\ pageIdx <= Len(pages)
    /\ LET t == tree
           page == pages[pageIdx]
             cp == GetChildPages(t, page.id)
             sub == SubPageLoop(t, cp.list, 1, [ lines |-> << >>, reqs |-> << >> ])
             first == Append(outFile, FileLine("Page", page.title, page.url))
         IN /\ IF cp.error # "none"
               THEN /\ Crash(cp.error)
                    /\ requests' = requests \o cp.reqs
                    /\ outFile' = first
                    /\ UNCHANGED << child_pages, pageIdx >>
               ELSE /\ child_pages' = cp.list
                    /\ requests' = Append((requests \o cp.reqs) \o sub.reqs, AttachmentRequest(page.id))
                    /\ outFile' = (first \o sub.lines) \o AttachmentLines(t, page.id)
                    /\ pageIdx' = pageIdx + 1
                    /\ UNCHANGED << pc, exitStatus, lastError >>
    /\ UNCHANGED << script, argv, fileOpen, spaces, spaceIdx, pages, tree, nonLA >>

\* The pages of the space are done: the next space
LA_NextSpace ==
    /\ script = "listall" /\ pc = "page" /\ pageIdx > Len(pages)
    /\ spaceIdx' = spaceIdx + 1
    /\ pc' = "space"
    /\ UNCHANGED << script, exitStatus, argv, requests, fileOpen, outFile, lastError,
                    spaces, pages, pageIdx, child_pages, tree, nonLA >>

\* The spaces are done: the file is closed and main returns
LA_Done ==
    /\ script = "listall" /\ pc = "space" /\ spaceIdx > Len(spaces)
    /\ Exit(0)
    /\ UNCHANGED << script, argv, requests, fileOpen, outFile, laVars, nonLA >>

LAInit ==
    /\ script = "listall" /\ argv \in LAArgvs
    /\ Start /\ CCIdle /\ GMIdle /\ LAIdle /\ PRIdle

LANext == LA_Main \/ LA_Spaces \/ LA_Space \/ LA_Page \/ LA_NextSpace \/ LA_Done

\* ---------------------------------------------------------------- simple_http_probe.py

MaxPorts == 2

PortSet == { 80, 443 }

PortLists == UNION { [1..n -> PortSet] : n \in 0..MaxPorts }

\* ",".join(str(x) for x in l)
RECURSIVE JoinPorts(_)
JoinPorts(l) ==
    IF l = << >> THEN << >>
    ELSE IF Len(l) = 1 THEN Str(l[1])
    ELSE (Str(l[1]) \o << "," >>) \o JoinPorts(Tail(l))

\* The command lines: --target (absent: << >>) and --ports
PRArgvs ==
    [ target : { << >>, << "t" >> },
      ports : { JoinPorts(l) : l \in PortLists }
              \cup { << "x" >>, << " ", "8", "0", " ", ",", ",", "4", "4", "3" >> } ]

\* ports = [int(x) for x in args.ports.split(",") if x.strip()]
RECURSIVE IntList(_, _)
IntList(parts, k) ==
    IF k > Len(parts) THEN [ ok |-> TRUE, list |-> << >> ]
    ELSE LET rest == IntList(parts, k + 1) IN
         IF Strip(parts[k]) = << >> THEN rest
         ELSE IF ~IsInt(parts[k]) THEN [ ok |-> FALSE, list |-> << >> ]
         ELSE [ ok |-> rest.ok, list |-> << ParseInt(parts[k]) >> \o rest.list ]

ParsePorts(s) == IntList(Split(s), 1)

\* What the target does with one attempt of a GET: an HTTP response, or a
\* transport failure (TLS failures on https only)
Response(code, reason) == [ kind |-> "response", status |-> code, reason |-> reason ]
Failure(kind) == [ kind |-> kind, status |-> 0, reason |-> "" ]

Attempts(sch) ==
    { Response(200, "OK"), Response(503, "Service Unavailable"), Response(503, "Busy"),
      Failure("connect_timeout") }
    \cup (IF sch = "https" THEN { Failure("ssl_error") } ELSE { })

\* Retry(total=max_retries, status_forcelist=(429, 502, 503, 504))
MaxRetries == 1

StatusForcelist == { 429, 502, 503, 504 }

\* session.get through the adapter of make_session: an attempt that fails, or
\* that is answered with a status of the forcelist, is repeated while retries
\* are left; when none is left the failure is raised, and a forcelist status
\* raises RetryError (raise_on_status).  as[k] is the target's answer to the
\* k-th attempt.
RECURSIVE SessionGet(_, _, _)
SessionGet(as, k, left) ==
    LET a == as[k]
        retry == a.kind # "response" \/ a.status \in StatusForcelist
    IN IF ~retry THEN [ raised |-> "none", resp |-> a, last |-> a ]
       ELSE IF left > 0 THEN SessionGet(as, k + 1, left - 1)
       ELSE [ raised |-> (IF a.kind = "response" THEN "RetryError" ELSE a.kind),
              resp |-> a, last |-> a ]

\* r.reason and "Service Unavailable" in r.reason
ReasonMatches(reason) == reason = "Service Unavailable"

\* probe_once: (result, status_code, reason); status None is NoStatus
ProbeOnce(as) ==
    LET g == SessionGet(as, 1, MaxRetries) IN
    IF g.raised = "none"
    THEN IF g.resp.status = 503 /\ ReasonMatches(g.resp.reason)
         THEN [ result |-> "NOT OPEN (503 Service Unavailable)",
                status_code |-> g.resp.status, reason |-> g.resp.reason ]
         ELSE [ result |-> "POTENTIAL OPEN",
                status_code |-> g.resp.status, reason |-> g.resp.reason ]
    ELSE IF g.raised = "ssl_error"
         THEN [ result |-> "NO RESPONSE (ssl_error)", status_code |-> NoStatus, reason |-> "" ]
    ELSE IF g.raised = "connect_timeout"
         THEN [ result |-> "NO RESPONSE (connect_timeout)", status_code |-> NoStatus, reason |-> "" ]
    ELSE [ result |-> "NO RESPONSE (unknown_error)", status_code |-> NoStatus, reason |-> "" ]

\* url = f"{scheme}://{netloc}{path}", the port omitted when it is the scheme's own
ProbeUrl(sch, target, port) ==
    LET use_standard == (sch = "https" /\ port = 443) \/ (sch = "http" /\ port = 80) IN
    (<< sch, "://" >> \o target) \o (IF use_standard THEN << >> ELSE << ":" >> \o Str(port))
        \o << "/" >>

CsvRow(port, sch, url, p) ==
    [ port |-> port, scheme |-> sch, url |-> url, result |-> p.result,
      status_code |-> p.status_code, reason |-> p.reason ]

CsvHeader ==
    [ port |-> 0, scheme |-> "scheme", url |-> << "url" >>, result |-> "result",
      status_code |-> NoStatus, reason |-> "reason" ]

\* (mutant) the break is lost: both schemes are always tried
BreakAfterNever(status_code) == FALSE

\* if status_code is not None: break
BreakAfter(status_code) == status_code # NoStatus

\* argparse and the setup of main(): without --target argparse exits 2
PR_Main ==
    /\ script = "probe" /\ pc = "main"
    /\ IF argv.target = << >>
       THEN /\ Exit(2) /\ UNCHANGED << ports, fileOpen, outFile >>
       ELSE LET pp == ParsePorts(argv.ports) IN
            IF ~pp.ok
            THEN /\ Crash("ValueError") /\ UNCHANGED << ports, fileOpen, outFile >>
            ELSE /\ ports' = pp.list
                 /\ fileOpen' = TRUE
                 /\ outFile' = << CsvHeader >>
                 /\ pc' = "probe" /\ UNCHANGED << exitStatus, lastError >>
    /\ UNCHANGED << script, argv, requests, portIdx, scheme, answers, nonPR >>

\* One pass of `for scheme in ("https", "http")` for the current port
PR_Probe ==
    /\ script = "probe" /\ pc = "probe" /\ portIdx <= Len(ports)
    /\ \E as \in [1..(MaxRetries + 1) -> Attempts(scheme)] :
         LET port == ports[portIdx]
             url == ProbeUrl(scheme, argv.target, port)
             p == ProbeOnce(as)
         IN /\ requests' = Append(requests, [ port |-> portIdx, scheme |-> scheme ])
            /\ answers' = Append(answers, SessionGet(as, 1, MaxRetries).last)
            /\ outFile' = Append(outFile, CsvRow(port, scheme, url, p))
            /\ IF BreakAfter(p.status_code) \/ scheme = "http"
               THEN /\ portIdx' = portIdx + 1 /\ scheme' = "https"
               ELSE /\ scheme' = "http" /\ UNCHANGED portIdx
    /\ UNCHANGED << script, pc, exitStatus, argv, fileOpen, lastError, ports, nonPR >>

PR_Done ==
    /\ script = "probe" /\ pc = "probe" /\ portIdx > Len(ports)
    /\ Exit(0)
    /\ UNCHANGED << script, argv, requests, fileOpen, outFile, prVars, nonPR >>

PRInit ==
    /\ script = "probe" /\ argv \in PRArgvs
    /\ Start /\ CCIdle /\ GMIdle /\ LAIdle /\ PRIdle

PRNext == PR_Main \/ PR_Probe \/ PR_Done

Init == CCInit \/ GMInit \/ LAInit \/ PRInit

Next == CCNext \/ GMNext \/ LANext \/ PRNext

Spec == Init /\ [][Next]_vars

\* ====================================================================== claims

Last(seq) == seq[Len(seq)]

RECURSIVE CountIn(_, _)
CountIn(seq, x) ==
    IF seq = << >> THEN 0 ELSE (IF Head(seq) = x THEN 1 ELSE 0) + CountIn(Tail(seq), x)

NoDuplicates(seq) == \A i, j \in 1..Len(seq) : i < j => seq[i] # seq[j]

\* The while loop of the current term has ended, the next line is not yet read
TermLoopEnded ==
    /\ script = "crooked"
    /\ \/ pc = "pages" /\ ~(start_point < totalSize)
       \/ pc = "nodocs"

\* The entry of the i-th record of the current term's answer set
TermEntry(i) == IdAndName(SrvRecord(srv, i), search_term)

\* C1: when the loop of a term ends whose N records (N <= limit) the server
\* serves by offset, contentSet holds an entry, tagged with the term, for every
\* one of the N records.
C1_TermCollectsAllRecords ==
    (TermLoopEnded /\ srv.mode = "plain" /\ srv.N <= limit)
        => \A i \in 0..(srv.N - 1) : TermEntry(i) \in contentSet

\* The dedup key of an entry of contentSet: its page link and its search term
EntryKey(e) == << Split(e)[1], Last(Split(e)) >>

\* C2: no collector accumulates two records with the same dedup key: contentSet
\* holds one entry per (page link, term) and user_list holds each username once.
C2_NoDuplicateKeys ==
    /\ \A e1, e2 \in contentSet : EntryKey(e1) = EntryKey(e2) => e1 = e2
    /\ NoDuplicates(user_list)

\* The top-level pages whose subtree list_all_content has listed so far
PagesDone == CountIn([ k \in 1..Len(outFile) |-> outFile[k].kind ], "Page")

TreeNodes == 1..Len(tree.parent)

ChildIds == [ k \in 1..Len(child_pages) |-> child_pages[k].id ]

SubPageLine(n) == FileLine("Sub-Page", PageTitle(n), PageTuple(n).url)

\* C3: for a page tree the server serves without fault, the children of every
\* node are requested once per listing of the top-level page, child_pages holds
\* every descendant once, and every descendant gets one [Sub-Page] line and one
\* attachment request.
C3_EachDescendantOnce ==
    (script = "listall" /\ pc # "crashed" /\ PagesDone >= 1 /\ tree.fail = {} /\ tree.bad = {})
        => /\ \A n \in TreeNodes \cup { 0 } : CountIn(requests, ChildRequest(n)) = PagesDone
           /\ \A n \in TreeNodes :
                /\ CountIn(ChildIds, n) = 1
                /\ CountIn(outFile, SubPageLine(n)) = PagesDone
                /\ CountIn(requests, AttachmentRequest(n)) = PagesDone

\* C4: every page request of a term starts below min(reported total, limit),
\* and the records accumulated for a term never exceed limit.
C4_LimitRespected ==
    (script = "crooked" /\ pc = "pages")
        => /\ Last(requests).kind = "page" => Last(requests).start < Min(srv.N, limit)
           /\ Cardinality(contentSet) - tempSetCount <= limit

\* Every line of the dictionary has had its totalSize request
AllTermsSearched ==
    \A k \in 1..Len(lines) :
        \E r \in 1..Len(requests) :
            requests[r].kind = "total" /\ requests[r].term = Strip(lines[k])

\* C5: a failed request of one term ends only that term's loop: the run does not
\* end there, every later term is searched and saveContent writes the set.
C5_RequestFailureIsolated ==
    (script = "crooked" /\ lastError \in ReqFailures)
        => /\ pc # "crashed"
           /\ pc = "exited" => (fileOpen /\ AllTermsSearched /\ outFile = SavedFile(cURL, contentSet))

\* -------------------------------------------------------------------- the probe

Rows == Tail(outFile)

\* The probe that follows the k-th one: http for the same port when the https
\* probe got no status code, otherwise https for the next port
ProbeAfter(k) ==
    IF requests[k].scheme = "https" /\ Rows[k].status_code = NoStatus
    THEN [ port |-> requests[k].port, scheme |-> "http" ]
    ELSE [ port |-> requests[k].port + 1, scheme |-> "https" ]

NoResponseResults ==
    { "NO RESPONSE (ssl_error)", "NO RESPONSE (connect_timeout)", "NO RESPONSE (read_timeout)",
      "NO RESPONSE (connection_error)", "NO RESPONSE (unknown_error)" }

\* C7: with the session of make_session, a target that answers 503 Service
\* Unavailable is recorded NOT OPEN with status 503, any other response
\* POTENTIAL OPEN with its status, and a transport failure NO RESPONSE without
\* status.
C7_Classification ==
    (script = "probe" /\ fileOpen)
        => \A k \in 1..Len(answers) :
             LET a == answers[k]
                 r == Rows[k]
             IN IF a.kind = "response"
                THEN IF a.status = 503 /\ a.reason = "Service Unavailable"
                     THEN r.result = "NOT OPEN (503 Service Unavailable)" /\ r.status_code = 503
                     ELSE r.result = "POTENTIAL OPEN" /\ r.status_code = a.status
                ELSE r.result \in NoResponseResults /\ r.status_code = NoStatus

\* The usernames of the well-formed results of the pages served with status 200
RECURSIVE NamesOf(_)
NamesOf(results) ==
    IF results = << >> THEN << >>
    ELSE (IF Head(results).hasName THEN << Head(results).username >> ELSE << >>)
         \o NamesOf(Tail(results))

RECURSIVE AllNames(_)
AllNames(pgs) == IF pgs = << >> THEN << >> ELSE NamesOf(Head(pgs).results) \o AllNames(Tail(pgs))

\* C8: a record without an expected field is skipped: the other records of its
\* page are accumulated and the run does not end with the KeyError.
C8_BadRecordSkipped ==
    /\ (script = "crooked" /\ pc = "pages" /\ Last(requests).kind = "page")
         => LET res == SrvPage(srv, Last(requests).start) IN
            \A k \in 1..Len(res) : res[k].hasTitle => IdAndName(res[k], search_term) \in contentSet
    /\ script = "members" => (lastError # "KeyError" /\ user_list = AllNames(served))
    /\ script = "listall" => lastError # "KeyError"

\* C9: get_all_users requests each page once, in link order, stops after the
\* page without next or at the first status other than 200, and returns the
\* usernames of the pages fetched, concatenated in fetch order.
C9_CursorPagination ==
    (script = "members" /\ pc \in { "fetch", "write", "exited" } /\ Len(argv) = 3)
        => /\ Len(requests) = Len(served)
           /\ \A k \in 1..Len(requests) :
                requests[k] = (IF k = 1 THEN argv[1] \o argv[2] ELSE argv[1] \o NextLink(k - 1))
           /\ \A k \in 1..(Len(served) - 1) : served[k].status = 200 /\ served[k].hasNext
           /\ served # << >> => (Last(served).status = 200 /\ Last(served).hasNext <=> pc = "fetch")
           /\ user_list = AllNames(served)
           /\ pc = "exited" => outFile = [ k \in 1..Len(user_list) |-> << user_list[k], "\n" >> ]

\* Three pages followed in link order, the users of all of them returned
C9_Witness ==
    /\ script = "members" /\ pc = "exited" /\ exitStatus = 0
    /\ Len(served) = 3 /\ \A k \in 1..3 : served[k].status = 200 /\ Len(served[k].results) = 2
    /\ Len(outFile) = 6

HasOpt(opts, o) == \E i \in 1..Len(opts) : opts[i].opt = o

\* The options at which the option loop of the search script stops
Stops(i) == argv[i].opt = "-h" \/ (argv[i].opt = "-l" /\ ~IsInt(argv[i].arg))

\* The command line holds neither -h nor a -l value that is no integer
NoHelpNoBadLimit == \A i \in 1..Len(argv) : ~Stops(i)

FirstStop == CHOOSE i \in 1..Len(argv) : Stops(i) /\ \A j \in 1..(i - 1) : ~Stops(j)

\* getopt rejects the command line
Rejected(known) == \E i \in 1..Len(argv) : argv[i].opt \notin known

NothingCollected == requests = << >> /\ ~fileOpen

ExitedWith(n) == pc = "exited" /\ exitStatus = n /\ NothingCollected

\* C10 as claimed: a missing -c or -d, or a dictionary that cannot be opened,
\* exits with status 2 before any request and before the output file is
\* written; the listing script exits 2 without a URL; the members script exits 1
\* unless three arguments are given.
C10_ConfigErrorsExit ==
    /\ (script = "crooked" /\ pc # "main" /\ ~(HasOpt(argv, "-c") /\ HasOpt(argv, "-d")))
         => ExitedWith(2)
    /\ (script = "crooked" /\ pc \notin { "main", "open" } /\ dict_path = BadDictFile)
         => ExitedWith(2)
    /\ (script = "listall" /\ pc # "main" /\ ~HasOpt(argv, "-c")) => ExitedWith(2)
    /\ (script = "members" /\ pc # "main" /\ Len(argv) # 3) => ExitedWith(1)

\* C10 as amended: in all these cases the run ends before any request and before
\* the output file is written, with the status claimed, except that on a command
\* line getopt accepts a -h exits with status 0 and, in the search script, a -l
\* value that is no integer raises ValueError (status 1), whichever the option
\* loop meets first.
C10_ConfigErrorsEndRun ==
    /\ (script = "crooked" /\ pc # "main" /\ ~(HasOpt(argv, "-c") /\ HasOpt(argv, "-d")))
         => /\ NothingCollected
            /\ IF Rejected(CCKnownOpts) \/ NoHelpNoBadLimit THEN ExitedWith(2)
               ELSE IF argv[FirstStop].opt = "-h" THEN ExitedWith(0)
               ELSE pc = "crashed" /\ exitStatus = 1 /\ lastError = "ValueError"
    /\ (script = "crooked" /\ pc \notin { "main", "open" } /\ dict_path = BadDictFile)
         => ExitedWith(2)
    /\ (script = "listall" /\ pc # "main" /\ ~HasOpt(argv, "-c"))
         => IF ~Rejected(LAKnownOpts) /\ HasOpt(argv, "-h") THEN ExitedWith(0) ELSE ExitedWith(2)
    /\ (script = "members" /\ pc # "main" /\ Len(argv) # 3) => ExitedWith(1)

\* The search script has ended with status 2 for want of -c
C10_Witness ==
    /\ script = "crooked" /\ HasOpt(argv, "-d") /\ ~HasOpt(argv, "-c")
    /\ NoHelpNoBadLimit /\ ExitedWith(2)

\* What saveContent is to write for a record: its link behind the base URL, its
\* full title, its search term
RecordLine(r) == [ url |-> cURL \o r.webui, name |-> r.title, term |-> r.term ]

\* C11: every record (link, title, term) added to contentSet is written by
\* saveContent with its own link, full title and term, nothing else is written,
\* and distinct records are distinct entries, also for titles holding a comma.
C11_CompositeKeyRoundTrip ==
    (script = "crooked" /\ pc = "exited" /\ fileOpen)
        => /\ \A r \in added : RecordLine(r) \in DOMAIN outFile
           /\ \A l \in DOMAIN outFile : \E r \in added : l = RecordLine(r)
           /\ Cardinality(contentSet) = Cardinality(added)

====
